---- MODULE Spec2Model ----
(***************************************************************************)
(* Model of the IPC layer of src/ipc: the websocket client (client.py)     *)
(* with its send queue, pending-request table, send and receive tasks,     *)
(* and the websocket server (server.py) with its route registry and the    *)
(* per-connection handler loop of handle_accept.                           *)
(*                                                                         *)
(* Scheduling is asyncio's: one step of the model is the code a task runs  *)
(* between two suspension points (await).                                  *)
(***************************************************************************)
EXTENDS Naturals, Sequences, FiniteSets

\* ---------------------------------------------------------------- bounds
MaxCalls == 2       \* request() calls issued by the client
MaxConns == 2       \* websocket connections the server accepts in a run
MaxRaw == 2         \* envelopes written by a peer that is not Client
MaxRoutes == 2      \* @route registrations in a run
MaxPeers == 2       \* connections made by peers that are not Client
MaxPings == 1       \* ping and pong frames the transport delivers to the client
MaxReplies == 2     \* response frames a peer writes for one nonce

\* --------------------------------------------------------- program constants
ReconnectDelay == 5     \* asyncio.sleep(5) before the reconnect

Calls == 1..MaxCalls
Conns == 1..MaxConns
Names == {"a", "b"}     \* endpoint names handlers are registered under
Handlers == {1, 2}      \* handler coroutines
NoEndpoint == "<absent>"    \* request.get("endpoint") is None
ServerKey == "good"     \* Server.secret_key

\* ------------------------------------------------------------ Python values
\* A value is [t, v]: its Python type and a payload that tells values apart.
PyInt(n) == [t |-> "int", v |-> n]
PyList(n) == [t |-> "list", v |-> n]
PyTuple(n) == [t |-> "tuple", v |-> n]
PyStrDict(n) == [t |-> "dict_str_keys", v |-> n]
PyIntDict(n) == [t |-> "dict_int_keys", v |-> n]
PyObject == [t |-> "object", v |-> 0]              \* e.g. a discord.py object
PyTupleDict == [t |-> "dict_tuple_keys", v |-> 0]  \* {(1, 2): 3}
PyCircular == [t |-> "circular_list", v |-> 0]     \* x = []; x.append(x)
PyNone == [t |-> "none", v |-> 0]
ErrorPayload(code) == [t |-> "error", v |-> code]  \* {"error": ..., "code": code}
EnvelopeValue(n) == [t |-> "envelope", v |-> n]    \* the response envelope itself
DefaultValue == [t |-> "default_value", v |-> 0]   \* request(default_value=...)
NoValue == [t |-> "unset", v |-> 0]

\* What a handler may return.
HandlerReturns ==
    {PyInt(1), PyInt(2), PyTuple(1), PyIntDict(1), PyObject, PyTupleDict, PyCircular}

\* json.dumps as send_json applies it: the JSON document, or the exception.
Dumps(x) ==
    CASE x.t = "int" -> [ok |-> TRUE, j |-> "number", v |-> x.v, exc |-> "none"]
      [] x.t = "none" -> [ok |-> TRUE, j |-> "null", v |-> 0, exc |-> "none"]
      [] x.t \in {"list", "tuple"} -> [ok |-> TRUE, j |-> "array", v |-> x.v, exc |-> "none"]
      [] x.t \in {"dict_str_keys", "dict_int_keys"} ->
            [ok |-> TRUE, j |-> "object", v |-> x.v, exc |-> "none"]
      [] x.t = "error" -> [ok |-> TRUE, j |-> "error_object", v |-> x.v, exc |-> "none"]
      [] x.t = "object" ->
            \* TypeError: Object of type X is not JSON serializable
            [ok |-> FALSE, j |-> "none", v |-> 0, exc |-> "TypeError_object_of_type"]
      [] x.t = "dict_tuple_keys" ->
            \* TypeError: keys must be str, int, float, bool or None, not tuple
            [ok |-> FALSE, j |-> "none", v |-> 0, exc |-> "TypeError_keys_must_be"]
      [] OTHER ->
            \* ValueError: Circular reference detected
            [ok |-> FALSE, j |-> "none", v |-> 0, exc |-> "ValueError"]

\* json.loads as recv.json() applies it to a document Dumps produced.
Loads(d) ==
    CASE d.j = "number" -> PyInt(d.v)
      [] d.j = "null" -> PyNone
      [] d.j = "array" -> PyList(d.v)
      [] d.j = "object" -> PyStrDict(d.v)
      [] OTHER -> ErrorPayload(d.v)

\* ------------------------------------------------------------------- state
VARIABLES
    cliKey,     \* Client.secret_key
    session,    \* Client._session: "none", "open" or "closed"
    ws,         \* Client._websocket: the connection it wraps, 0 for None
    worker,     \* the _receive_requests task and where it is suspended
    sender,     \* the _send_requests task
    queue,      \* Client._queue: nonces of the payloads waiting to be sent
    enqLog,     \* history: the nonces in the order request() enqueued them
    calls,      \* request() calls: position, endpoint, future, value
    timer,      \* time left of the worker's asyncio.sleep
    closedAt,   \* history: connections the client had made when close() ran
    srvUp,      \* the listener accepts connections
    ROUTES,     \* Server.ROUTES: name -> handler, 0 for no entry
    endpoints,  \* Server.endpoints: name -> handler, 0 for no entry
    routeLog,   \* history: the registrations made, in order
    conns,      \* the websocket connections, both ends
    srvRet,     \* history: nonce -> what the handler run for it returned
    nRaw,       \* envelopes written by the other peer so far
    nReg,       \* @route registrations so far
    nPing       \* ping frames delivered so far

vars == <<cliKey, session, ws, worker, sender, queue, enqLog, calls, timer,
          closedAt,
          srvUp, ROUTES, endpoints, routeLog, conns, srvRet, nRaw, nReg, nPing>>

cliVars == <<cliKey, session, ws, worker, sender, queue, enqLog, calls, timer, closedAt>>
regVars == <<ROUTES, endpoints, routeLog>>
envVars == <<srvUp, nRaw, nReg, nPing>>

Nonces == 1..(MaxCalls + MaxRaw)

\* A frame on its way to the server: a request envelope (k = "json") or a
\* ping.  hdr is the shape of the "headers" entry: "none" (no entry), "empty"
\* ({}), "noauth" (a non-empty mapping without "Authorization") or "auth"; auth
\* is then the Authorization value.  data tells whether "data" is present.
NoFrame ==
    [k |-> "none", ep |-> NoEndpoint, hdr |-> "none", auth |-> "-", data |-> FALSE,
     nonce |-> 0]

PingFrame == [NoFrame EXCEPT !.k = "PING"]

NoDoc == [ok |-> FALSE, j |-> "none", v |-> 0, exc |-> "none"]

\* A frame on its way to the client: a response envelope (k = "resp") carrying
\* the nonce and the JSON document of its "response" entry, or a control frame.
Control(kind) == [k |-> kind, nonce |-> 0, doc |-> NoDoc]

FreeConn ==
    [st |-> "free", owner |-> "none", inbox |-> <<>>, outbox |-> <<>>,
     hpc |-> "idle", cur |-> NoFrame, h |-> 0,
     \* history: the envelopes read, the handler calls made, the responses sent
     recvLog |-> <<>>, invLog |-> <<>>, sentLog |-> <<>>,
     \* history: the frames the client wrote to and took off its websocket
     wroteLog |-> <<>>, readLog |-> <<>>]

\* how tells a returned call's path: "result" (line 69) or "default" (line 72).
NewCall == [pc |-> "new", ep |-> NoEndpoint, fut |-> "none", val |-> NoValue, how |-> "-"]

NotClosed == [done |-> FALSE, connected |-> FALSE, n |-> 0, w |-> "none", calls |-> 0]

\* The registrations that leave pending in Server.ROUTES, one for each name.
Decorated(pending) ==
    (IF pending["a"] # 0 THEN <<[e |-> "a", h |-> pending["a"]]>> ELSE <<>>)
    \o (IF pending["b"] # 0 THEN <<[e |-> "b", h |-> pending["b"]]>> ELSE <<>>)

\* The state after Client(...) and Server(...) are constructed, the module's
\* @route decorators having filled Server.ROUTES with pending.
Constructed(keys, pending) ==
    /\ cliKey \in keys
    /\ session = "none"
    /\ ws = 0
    /\ worker = "none"
    /\ sender = "none"
    /\ queue = <<>>
    /\ enqLog = <<>>
    /\ calls = [n \in Calls |-> NewCall]
    /\ timer = 0
    /\ closedAt = NotClosed
    /\ srvUp = TRUE
    /\ ROUTES = pending
    /\ endpoints = [e \in Names |-> 0]
    /\ routeLog = Decorated(pending)
    /\ conns = [c \in Conns |-> FreeConn]
    /\ srvRet = [n \in Nonces |-> NoValue]
    /\ nRaw = 0
    /\ nReg = 0
    /\ nPing = 0

NoRoutes == [e \in Names |-> 0]
RouteA == [e \in Names |-> IF e = "a" THEN 1 ELSE 0]      \* @route() on handler a

\* ------------------------------------------------------------------ server
\* route(name)(func): Server.ROUTES[name] = func.
Route(e, h) ==
    /\ nReg < MaxRoutes
    /\ nReg' = nReg + 1
    /\ ROUTES' = [ROUTES EXCEPT ![e] = h]
    /\ routeLog' = Append(routeLog, [e |-> e, h |-> h])
    /\ UNCHANGED <<cliVars, srvUp, endpoints, conns, srvRet, nRaw, nPing>>

\* A merge in which an entry of the live registry is kept over a pending one.
MergedLiveFirst(live, pending) ==
    [e \in Names |-> IF live[e] # 0 THEN live[e] ELSE pending[e]]

\* {**self.endpoints, **self.ROUTES}
Merged(live, pending) ==
    [e \in Names |-> IF pending[e] # 0 THEN pending[e] ELSE live[e]]

\* Server.update_endpoints, run by handle_accept for each new connection.
update_endpoints ==
    /\ endpoints' = Merged(endpoints, ROUTES)
    /\ ROUTES' = [e \in Names |-> 0]
    /\ UNCHANGED routeLog

\* handle_accept up to its loop: the registry merge and a prepared websocket.
Accept(c, who) ==
    /\ srvUp
    /\ conns[c].st = "free"
    /\ \A d \in Conns : d < c => conns[d].st # "free"
    /\ update_endpoints
    /\ conns' = [conns EXCEPT ![c] = [FreeConn EXCEPT !.st = "open", !.owner = who]]

InRegistry(e) == e \in Names /\ endpoints[e] # 0

\* A dispatch that takes any non-empty endpoint name to be registered.
DispatchUnchecked(f) ==
    IF f.hdr \in {"none", "empty"} THEN "401"
    ELSE IF f.hdr = "noauth" THEN "TypeError"
    ELSE IF f.auth # ServerKey THEN "401"
    ELSE IF f.ep \in {NoEndpoint, ""} THEN "400"
    ELSE IF ~f.data THEN "KeyError"
    ELSE "invoke"

\* Lines 87-115 of handle_accept: what the loop does with a parsed envelope
\* before any handler runs.
Dispatch(f) ==
    IF f.hdr \in {"none", "empty"} THEN "401"               \* not headers
    ELSE IF f.hdr = "noauth" THEN "TypeError"              \* compare_digest(None, str)
    ELSE IF f.auth # ServerKey THEN "401"
    ELSE IF f.ep \in {NoEndpoint, ""} \/ ~InRegistry(f.ep) THEN "400"
    ELSE IF ~f.data THEN "KeyError"                        \* request["data"]
    ELSE "invoke"

\* The connection after websocket.send_json({"nonce": nonce, "response": x}).
Sent(conn, nonce, x) ==
    [conn EXCEPT !.outbox = Append(@, [k |-> "resp", nonce |-> nonce, doc |-> Dumps(x)]),
                 !.sentLog = Append(@, [nonce |-> nonce, x |-> x]),
                 !.hpc = "idle", !.cur = NoFrame, !.h = 0]

\* An exception leaves handle_accept: the loop is over and aiohttp drops the
\* connection.
Crashed(conn) ==
    [conn EXCEPT !.hpc = "dead", !.st = "closed", !.cur = NoFrame, !.h = 0]

\* One iteration of "async for message in websocket" up to the handler call.
SrvRecv(c) ==
    LET conn == conns[c]
        f == Head(conn.inbox)
        got == [conn EXCEPT !.inbox = Tail(@)]
        logged == [got EXCEPT !.recvLog = Append(@, f)]
        d == Dispatch(f)
    IN  /\ conn.st = "open"
        /\ conn.hpc = "idle"
        /\ conn.inbox # <<>>
        /\ conns' = [conns EXCEPT ![c] =
              IF f.k = "PING"
              THEN [got EXCEPT !.outbox = Append(@, Control("PONG"))]
              ELSE IF d = "401" THEN Sent(logged, f.nonce, ErrorPayload(401))
              ELSE IF d = "400" THEN Sent(logged, f.nonce, ErrorPayload(400))
              ELSE IF d = "invoke"
                   THEN [logged EXCEPT !.hpc = "handler", !.cur = f, !.h = endpoints[f.ep],
                                       !.invLog = Append(@, f)]
              ELSE Crashed(logged)]
        /\ UNCHANGED <<cliVars, regVars, envVars, srvRet>>

Raised == [t |-> "raised", v |-> 0]

\* A handler's exception that is not caught.
OnRaiseUncaught(conn, nonce) == Crashed(conn)

\* Lines 117-126: "except Exception" turns the handler's exception into a 500.
OnRaise(conn, nonce) == Sent(conn, nonce, ErrorPayload(500))

\* Lines 134-149: send_json raised exc.  Only a TypeError is caught, and only
\* the message "Object of type ... is not JSON serializable" is answered.
OnSendError(conn, nonce, exc) ==
    IF exc = "TypeError_object_of_type" THEN Sent(conn, nonce, ErrorPayload(500))
    ELSE IF exc = "TypeError_keys_must_be"
         THEN [conn EXCEPT !.hpc = "idle", !.cur = NoFrame, !.h = 0]
    ELSE Crashed(conn)

\* Lines 114-149: the handler finishes (out is what it returned, or Raised)
\* and the response is sent.
SrvHandlerDone(c, out) ==
    LET conn == conns[c]
        nonce == conn.cur.nonce
        d == Dumps(out)
    IN  /\ conn.hpc = "handler"
        /\ srvRet' = [srvRet EXCEPT ![nonce] = out]
        /\ conns' = [conns EXCEPT ![c] =
              IF conn.st # "open" THEN Crashed(conn)       \* send on a closed socket
              ELSE IF out = Raised THEN OnRaise(conn, nonce)
              ELSE IF d.ok THEN Sent(conn, nonce, out)
              ELSE OnSendError(conn, nonce, d.exc)]
        /\ UNCHANGED <<cliVars, regVars, envVars>>

\* ------------------------------------------------------------------ client
\* Client._requests: the weak table holds a nonce while the request() frame
\* that owns the future is alive, from line 67 until the call returns.
Requests == {n \in Calls : calls[n].pc \in {"wait", "timedout"}}

\* Lines 59-64: the envelope request() builds for call n.
Payload(n) ==
    [k |-> "json", ep |-> calls[n].ep, hdr |-> "auth", auth |-> cliKey, data |-> TRUE,
     nonce |-> n]

\* Lines 39-43 of init_sock: start the tasks that are not there yet.
StartedWorker == IF worker \in {"none", "cancelled"} THEN "recv" ELSE worker
StartedSender == IF sender \in {"none", "cancelled"} THEN "run" ELSE sender

\* A request() that is suspended after put_nowait, its future not yet made.
IssuedUnregistered(n, e) ==
    /\ queue' = Append(queue, n)
    /\ enqLog' = Append(enqLog, n)
    /\ calls' = [calls EXCEPT ![n].pc = "enqueued", ![n].ep = e]

\* Lines 66-67: enqueue the payload and register the future.
Issued(n, e) ==
    /\ queue' = Append(queue, n)
    /\ enqLog' = Append(enqLog, n)
    /\ calls' = [calls EXCEPT ![n] = [pc |-> "wait", ep |-> e, fut |-> "pending",
                                      val |-> NoValue, how |-> "-"]]

\* request() is called: with no session it starts init_sock and waits in
\* ws_connect, else it runs to the await of its future.
RequestStart(n, e) ==
    /\ calls[n].pc = "new"
    /\ IF n = 1 THEN TRUE ELSE calls[n - 1].pc # "new"
    /\ IF session = "none"
       THEN /\ session' = "open"
            /\ calls' = [calls EXCEPT ![n].pc = "connect", ![n].ep = e]
            /\ UNCHANGED <<queue, enqLog>>
       ELSE /\ Issued(n, e)
            /\ UNCHANGED session
    /\ UNCHANGED <<cliKey, ws, worker, sender, timer, closedAt, regVars, envVars,
                   conns, srvRet>>

\* ws_connect of the lazy init_sock returns: the tasks start, the call goes on.
RequestConnected(n, c) ==
    /\ calls[n].pc = "connect"
    /\ session = "open"
    /\ Accept(c, "client")
    /\ ws' = c
    /\ worker' = StartedWorker
    /\ sender' = StartedSender
    /\ Issued(n, calls[n].ep)
    /\ UNCHANGED <<cliKey, session, timer, closedAt, envVars, srvRet>>

\* ws_connect of the lazy init_sock raises into request().
RequestConnectFail(n) ==
    /\ calls[n].pc = "connect"
    /\ ~srvUp \/ session = "closed"
    /\ calls' = [calls EXCEPT ![n].pc = "raised"]
    /\ UNCHANGED <<cliKey, session, ws, worker, sender, queue, enqLog, timer, closedAt,
                   regVars, envVars, conns, srvRet>>

\* asyncio.wait_for: the timeout fires and cancels the future.
Timeout(n) ==
    /\ calls[n].pc = "wait"
    /\ calls[n].fut = "pending"
    /\ calls' = [calls EXCEPT ![n].pc = "timedout", ![n].fut = "cancelled"]
    /\ UNCHANGED <<cliKey, session, ws, worker, sender, queue, enqLog, timer, closedAt,
                   regVars, envVars, conns, srvRet>>

\* Lines 69-72: the call resumes and returns the result or default_value; the
\* future goes with its frame.
Returned(call) ==
    [call EXCEPT !.pc = "returned", !.fut = "none",
                 !.val = IF call.fut = "done" THEN @ ELSE DefaultValue,
                 !.how = IF call.fut = "done" THEN "result" ELSE "default"]

RequestReturn(n) ==
    /\ \/ calls[n].pc = "wait" /\ calls[n].fut = "done"
       \/ calls[n].pc = "timedout"
    /\ calls' = [calls EXCEPT ![n] = Returned(calls[n])]
    /\ UNCHANGED <<cliKey, session, ws, worker, sender, queue, enqLog, timer, closedAt,
                   regVars, envVars, conns, srvRet>>

IsOpen(c) == c # 0 /\ conns[c].st = "open"

\* A send loop that writes the payload at the head of the queue and leaves it
\* there.
SenderStepResend ==
    /\ sender = "run"
    /\ queue # <<>>
    /\ IsOpen(ws)
    /\ conns' = [conns EXCEPT ![ws].inbox = Append(@, Payload(Head(queue))),
                              ![ws].wroteLog = Append(@, Payload(Head(queue)))]
    /\ UNCHANGED <<cliVars, regVars, envVars, srvRet>>

\* _send_requests: one payload off the queue and onto the websocket; send_json
\* raises on a closed websocket and ends the task.
SenderStep ==
    /\ sender = "run"
    /\ queue # <<>>
    /\ queue' = Tail(queue)
    /\ IF IsOpen(ws)
       THEN /\ conns' = [conns EXCEPT ![ws].inbox = Append(@, Payload(Head(queue))),
                                       ![ws].wroteLog = Append(@, Payload(Head(queue)))]
            /\ UNCHANGED sender
       ELSE /\ sender' = "dead"
            /\ UNCHANGED conns
    /\ UNCHANGED <<cliKey, session, ws, worker, enqLog, calls, timer, closedAt,
                   regVars, envVars, srvRet>>

\* A lookup that takes any pending slot for the response.
LookupAny(nonce) == IF Requests = {} THEN 0 ELSE CHOOSE n \in Requests : TRUE

\* Lines 96-102: self._requests[nonce]; 0 stands for the KeyError.
Lookup(nonce) == IF nonce \in Requests THEN nonce ELSE 0

\* A receive loop that hands the caller the envelope instead of its entry.
RetEnvelope(frame) == EnvelopeValue(frame.nonce)

\* Line 105: response.get("response", response) of the parsed envelope.
Ret(frame) == Loads(frame.doc)

\* Line 106: future.set_result(ret) on the future of call n; a future that is
\* done or cancelled raises InvalidStateError, which ends the task.
SetResult(n, ret) ==
    IF calls[n].fut = "pending"
    THEN /\ calls' = [calls EXCEPT ![n].fut = "done", ![n].val = ret]
         /\ UNCHANGED worker
    ELSE /\ worker' = "dead"
         /\ UNCHANGED calls

\* Line 81: receive() hands over the next frame of the connection.
Taken(conn) == [conn EXCEPT !.outbox = Tail(@), !.readLog = Append(@, Head(conn.outbox))]

\* Line 84: self._websocket.ping() writes a ping frame.
PingSent ==
    IF IsOpen(ws)
    THEN /\ conns' = [conns EXCEPT ![ws] = [Taken(@) EXCEPT
                                    !.inbox = Append(@, PingFrame),
                                    !.wroteLog = Append(@, PingFrame)]]
         /\ UNCHANGED worker
    ELSE /\ conns' = [conns EXCEPT ![ws] = Taken(@)]
         /\ worker' = "dead"

\* _receive_requests: one frame off the websocket and the branch it takes.
\* With autoclose=False a close frame is handed to the loop as WSMsgType.CLOSE,
\* which only the else branch matches; CLOSED is what receive() returns once
\* the connection is gone.
WorkerRecv ==
    /\ worker = "recv"
    /\ ws # 0
    /\ LET conn == conns[ws]
           frame == Head(conn.outbox)
       IN  IF conn.outbox # <<>>
           THEN IF frame.k = "PING"
                THEN /\ PingSent
                     /\ UNCHANGED <<session, timer, calls>>
                ELSE /\ conns' = [conns EXCEPT ![ws] = Taken(@)]
                     /\ UNCHANGED <<session, timer>>
                     /\ IF frame.k = "PONG"
                        THEN UNCHANGED <<worker, calls>>
                        ELSE IF frame.k = "CLOSE"          \* recv.json() raises
                        THEN worker' = "dead" /\ UNCHANGED calls
                        ELSE IF Lookup(frame.nonce) = 0
                        THEN UNCHANGED <<worker, calls>>
                        ELSE SetResult(Lookup(frame.nonce), Ret(frame))
           ELSE /\ conn.st = "closed"                     \* WSMsgType.CLOSED
                /\ session' = "closed"
                /\ timer' = ReconnectDelay
                /\ worker' = "sleep"
                /\ UNCHANGED <<conns, calls>>
    /\ UNCHANGED <<cliKey, ws, sender, queue, enqLog, closedAt, regVars, envVars, srvRet>>

\* Time passes while the worker sleeps.
Tick ==
    /\ worker = "sleep"
    /\ timer > 0
    /\ timer' = timer - 1
    /\ UNCHANGED <<cliKey, session, ws, worker, sender, queue, enqLog, calls, closedAt,
                   regVars, envVars, conns, srvRet>>

\* The sleep is over: init_sock makes a new session and waits in ws_connect.
WorkerWake ==
    /\ worker = "sleep"
    /\ timer = 0
    /\ session' = "open"
    /\ worker' = "connect"
    /\ UNCHANGED <<cliKey, ws, sender, queue, enqLog, calls, timer, closedAt, regVars,
                   envVars, conns, srvRet>>

\* ws_connect of the worker's init_sock returns.
WorkerConnected(c) ==
    /\ worker = "connect"
    /\ Accept(c, "client")
    /\ ws' = c
    /\ worker' = "recv"
    /\ sender' = StartedSender
    /\ UNCHANGED <<cliKey, session, queue, enqLog, calls, timer, closedAt, envVars, srvRet>>

\* ws_connect of the worker's init_sock raises: the task ends.
WorkerConnectFail ==
    /\ worker = "connect"
    /\ ~srvUp
    /\ worker' = "dead"
    /\ UNCHANGED <<cliKey, session, ws, sender, queue, enqLog, calls, timer, closedAt,
                   regVars, envVars, conns, srvRet>>

ClientConns == {c \in Conns : conns[c].owner = "client"}

\* The client's end of its connection goes away with the session.
Hangup(cs) ==
    IF IsOpen(ws)
    THEN [cs EXCEPT ![ws].st = "closed", ![ws].outbox = <<>>]
    ELSE cs

\* A close() that leaves the task running.
NotCancelled(task) == task

\* Lines 111-117: task.cancel() and the attribute set to None, for a task
\* that was started.
Cancelled(task) == IF task = "none" THEN "none" ELSE "cancelled"

\* Client.close(): the session is closed and both tasks are cancelled.
Close ==
    /\ session # "none"
    /\ ~closedAt.done
    /\ session' = "closed"
    /\ conns' = Hangup(conns)
    /\ worker' = Cancelled(worker)
    /\ sender' = Cancelled(sender)
    /\ closedAt' = [done |-> TRUE, connected |-> ws # 0, n |-> Cardinality(ClientConns),
                    w |-> worker,
                    calls |-> Cardinality({n \in Calls : calls[n].pc # "new"})]
    /\ UNCHANGED <<cliKey, ws, queue, enqLog, calls, timer, regVars, envVars, srvRet>>

\* ------------------------------------------------------------- environment
\* The server's end drops connection c: with a close frame, or without one.
DropConn(c, kind) ==
    /\ conns[c].st = "open"
    /\ conns[c].owner = "client"
    /\ conns' = [conns EXCEPT ![c].st = "closed",
                              ![c].outbox = IF kind = "CLOSE"
                                            THEN Append(@, Control("CLOSE")) ELSE @]
    /\ UNCHANGED <<cliVars, regVars, envVars, srvRet>>

\* The listener stops or starts accepting.
Listener(up) ==
    /\ srvUp # up
    /\ srvUp' = up
    /\ UNCHANGED <<cliVars, regVars, conns, srvRet, nRaw, nReg, nPing>>

\* A ping frame reaches the client.
PingArrives ==
    /\ nPing < MaxPings
    /\ IsOpen(ws)
    /\ nPing' = nPing + 1
    /\ conns' = [conns EXCEPT ![ws].outbox = Append(@, Control("PING"))]
    /\ UNCHANGED <<cliVars, regVars, srvRet, srvUp, nRaw, nReg>>

\* A pong frame reaches the client.
PongArrives ==
    /\ nPing < MaxPings
    /\ IsOpen(ws)
    /\ nPing' = nPing + 1
    /\ conns' = [conns EXCEPT ![ws].outbox = Append(@, Control("PONG"))]
    /\ UNCHANGED <<cliVars, regVars, srvRet, srvUp, nRaw, nReg>>

\* Envelopes another websocket peer may write.
RawFrames(n) ==
    {[k |-> "json", ep |-> "a", hdr |-> h, auth |-> "-", data |-> TRUE, nonce |-> n] :
        h \in {"none", "empty", "noauth"}}
    \cup {[k |-> "json", ep |-> "a", hdr |-> "auth", auth |-> "bad", data |-> TRUE,
           nonce |-> n]}
    \cup {[k |-> "json", ep |-> e, hdr |-> "auth", auth |-> ServerKey, data |-> TRUE,
           nonce |-> n] : e \in {"a", ""}}
    \cup {[k |-> "json", ep |-> "a", hdr |-> "auth", auth |-> ServerKey, data |-> FALSE,
           nonce |-> n]}

\* Another peer connects.
RawConnect(c) ==
    /\ Cardinality({d \in Conns : conns[d].owner = "raw"}) < MaxPeers
    /\ Accept(c, "raw")
    /\ UNCHANGED <<cliVars, envVars, srvRet>>

\* Another peer writes an envelope on its connection.
RawSend(c, f) ==
    /\ nRaw < MaxRaw
    /\ conns[c].st = "open"
    /\ conns[c].owner = "raw"
    /\ nRaw' = nRaw + 1
    /\ conns' = [conns EXCEPT ![c].inbox = Append(@, f)]
    /\ UNCHANGED <<cliVars, regVars, srvRet, srvUp, nReg, nPing>>

\* ------------------------------------------------------------ specification
\* Client and server end to end.
Init == Constructed({"good", "bad"}, RouteA)

ServerSteps ==
    \/ \E c \in Conns : SrvRecv(c)
    \/ \E c \in Conns, out \in HandlerReturns \cup {Raised} : SrvHandlerDone(c, out)

Next ==
    \/ ServerSteps
    \/ \E n \in Calls, e \in Names : RequestStart(n, e)
    \/ \E n \in Calls, c \in Conns : RequestConnected(n, c)
    \/ \E n \in Calls : Timeout(n)
    \/ \E n \in Calls : RequestReturn(n)
    \/ SenderStep
    \/ WorkerRecv

Spec == Init /\ [][Next]_vars

\* The server and the peers that write to it.
InitServer == Constructed({"good"}, NoRoutes)

\* One handler outcome of each kind the loop tells apart.
ServerOutcomes == {PyInt(1), PyObject, PyTupleDict, PyCircular, Raised}

NextServer ==
    \/ \E e \in {"a"}, h \in {1} : Route(e, h)
    \/ \E c \in Conns : SrvRecv(c)
    \/ \E c \in Conns, out \in ServerOutcomes : SrvHandlerDone(c, out)
    \/ \E c \in Conns : RawConnect(c)
    \/ \E c \in Conns : \E f \in RawFrames(MaxCalls + nRaw + 1) : RawSend(c, f)

SpecServer == InitServer /\ [][NextServer]_vars

\* The registry: registrations under any name, and peers that connect and
\* call what is registered.
InitRegistry == Constructed({"good"}, NoRoutes)

RegistryFrames(n) ==
    {[k |-> "json", ep |-> e, hdr |-> "auth", auth |-> ServerKey, data |-> TRUE,
      nonce |-> n] : e \in {"a", "", NoEndpoint}}

NextRegistry ==
    \/ \E e \in Names, h \in Handlers : Route(e, h)
    \/ \E c \in Conns : RawConnect(c)
    \/ \E c \in Conns : \E f \in RegistryFrames(MaxCalls + nRaw + 1) : RawSend(c, f)
    \/ \E c \in Conns : SrvRecv(c)
    \/ \E c \in Conns, out \in {PyInt(1)} : SrvHandlerDone(c, out)

SpecRegistry == InitRegistry /\ [][NextRegistry]_vars

\* The client and a peer that answers its envelopes in any order.
InitPeer == Constructed({"good"}, NoRoutes)

PeerValues == {PyInt(1), PyInt(2)}

\* The peer answers an envelope it was sent on the client's connection.
PeerReply(n, x) ==
    /\ IsOpen(ws)
    /\ \E i \in 1..Len(conns[ws].inbox) : conns[ws].inbox[i].nonce = n
    /\ srvRet[n] = NoValue
    /\ srvRet' = [srvRet EXCEPT ![n] = x]
    /\ conns' = [conns EXCEPT ![ws].outbox =
                     Append(@, [k |-> "resp", nonce |-> n, doc |-> Dumps(x)])]
    /\ UNCHANGED <<cliVars, regVars, envVars>>

RepliesTo(n) ==
    Cardinality({i \in 1..Len(conns[ws].outbox) :
                     conns[ws].outbox[i].k = "resp" /\ conns[ws].outbox[i].nonce = n})
    + Cardinality({i \in 1..Len(conns[ws].readLog) :
                     conns[ws].readLog[i].k = "resp" /\ conns[ws].readLog[i].nonce = n})

\* The peer writes its answer to an envelope once more.
PeerRepeat(n) ==
    /\ IsOpen(ws)
    /\ srvRet[n] # NoValue
    /\ RepliesTo(n) < MaxReplies
    /\ conns' = [conns EXCEPT ![ws].outbox =
                     Append(@, [k |-> "resp", nonce |-> n, doc |-> Dumps(srvRet[n])])]
    /\ UNCHANGED <<cliVars, regVars, envVars, srvRet>>

NextPeer ==
    \/ \E n \in Calls, e \in {"a"} : RequestStart(n, e)
    \/ \E n \in Calls, c \in Conns : RequestConnected(n, c)
    \/ \E n \in Calls : Timeout(n)
    \/ \E n \in Calls : RequestReturn(n)
    \/ SenderStep
    \/ WorkerRecv
    \/ \E n \in Calls, x \in PeerValues : PeerReply(n, x)

SpecPeer == InitPeer /\ [][NextPeer]_vars

\* The client and a peer that also repeats its answers and writes ping and
\* pong frames.
InitFrames == Constructed({"good"}, NoRoutes)

NextFrames ==
    \/ \E n \in Calls, e \in {"a"} : RequestStart(n, e)
    \/ \E n \in Calls, c \in Conns : RequestConnected(n, c)
    \/ \E n \in Calls : Timeout(n)
    \/ \E n \in Calls : RequestReturn(n)
    \/ SenderStep
    \/ WorkerRecv
    \/ \E n \in Calls, x \in PeerValues : PeerReply(n, x)
    \/ \E n \in Calls : PeerRepeat(n)
    \/ PingArrives
    \/ PongArrives

SpecFrames == InitFrames /\ [][NextFrames]_vars

\* The client, the server and a connection that comes and goes.
InitLife == Constructed({"good"}, RouteA)

NextLife ==
    \/ \E c \in Conns : SrvRecv(c)
    \/ \E c \in Conns, out \in {PyInt(1)} : SrvHandlerDone(c, out)
    \/ \E n \in Calls, e \in {"a"} : RequestStart(n, e)
    \/ \E n \in Calls, c \in Conns : RequestConnected(n, c)
    \/ \E n \in Calls : RequestConnectFail(n)
    \/ \E n \in Calls : Timeout(n)
    \/ \E n \in Calls : RequestReturn(n)
    \/ SenderStep
    \/ WorkerRecv
    \/ Tick
    \/ WorkerWake
    \/ \E c \in Conns : WorkerConnected(c)
    \/ WorkerConnectFail
    \/ Close
    \/ \E c \in Conns, kind \in {"CLOSE", "CLOSED"} : DropConn(c, kind)
    \/ \E up \in BOOLEAN : Listener(up)

SpecLife == InitLife /\ [][NextLife]_vars

\* ------------------------------------------------- server: what is checked
Last(s) == s[Len(s)]

Authenticated(f) == f.hdr = "auth" /\ f.auth = ServerKey

\* In this step the loop of connection c read an envelope.
Reads(c) == Len(conns'[c].recvLog) = Len(conns[c].recvLog) + 1

\* In this step the handler run on connection c came to its end.
Finishes(c) == conns[c].hpc = "handler" /\ conns'[c].hpc # "handler"

\* In this step one response, code for nonce, was sent on connection c.
Answers(c, nonce, code) ==
    /\ Len(conns'[c].sentLog) = Len(conns[c].sentLog) + 1
    /\ Last(conns'[c].sentLog) = [nonce |-> nonce, x |-> ErrorPayload(code)]
    /\ Last(conns'[c].outbox).nonce = nonce
    /\ Last(conns'[c].outbox).doc = Dumps(ErrorPayload(code))

LoopGoesOn(c) == conns'[c].hpc = "idle" /\ conns'[c].st = "open"

\* C3: an envelope without headers, without an Authorization entry or with an
\* Authorization other than the secret is answered 401 under its nonce, and no
\* handler is called for it.
C3_Unauthorized401 ==
    [][\A c \in Conns :
          (Reads(c) /\ ~Authenticated(Last(conns'[c].recvLog)))
          => /\ Answers(c, Last(conns'[c].recvLog).nonce, 401)
             /\ conns'[c].invLog = conns[c].invLog]_vars

\* C4: an authenticated envelope whose endpoint is absent, empty or not in
\* the live registry when it is processed is answered 400 under its nonce with
\* no handler called; the handler called for an envelope is the registry's
\* entry for its endpoint.
C4_UnknownEndpoint400 ==
    [][\A c \in Conns :
          /\ (Reads(c) /\ Authenticated(Last(conns'[c].recvLog))
                /\ ~InRegistry(Last(conns'[c].recvLog).ep))
             => /\ Answers(c, Last(conns'[c].recvLog).nonce, 400)
                /\ conns'[c].invLog = conns[c].invLog
          /\ conns'[c].invLog # conns[c].invLog
             => /\ InRegistry(Last(conns'[c].invLog).ep)
                /\ conns'[c].h = endpoints[Last(conns'[c].invLog).ep]]_vars

\* An envelope for "a" was answered 400 while "a" was not registered, and "a"
\* is registered now.
C4_Witness ==
    \E c \in Conns : \E i \in 1..Len(conns[c].recvLog) :
        /\ Authenticated(conns[c].recvLog[i])
        /\ conns[c].recvLog[i].ep = "a"
        /\ \E j \in 1..Len(conns[c].sentLog) :
              conns[c].sentLog[j] =
                  [nonce |-> conns[c].recvLog[i].nonce, x |-> ErrorPayload(400)]
        /\ InRegistry("a")

\* C5: when a handler raises, a 500 is sent under the request's nonce and the
\* loop of the connection goes on to the next envelope.
C5_HandlerRaise500 ==
    [][\A c \in Conns :
          (Finishes(c) /\ conns[c].st = "open" /\ srvRet'[conns[c].cur.nonce] = Raised)
          => (Answers(c, conns[c].cur.nonce, 500) /\ LoopGoesOn(c))]_vars

\* A handler raised, its 500 was sent, and the next envelope on the same
\* connection was answered with its handler's value.
C5_Witness ==
    \E c \in Conns :
        /\ Len(conns[c].sentLog) = 2
        /\ srvRet[conns[c].sentLog[1].nonce] = Raised
        /\ conns[c].sentLog[1].x = ErrorPayload(500)
        /\ conns[c].sentLog[2].x = PyInt(1)
        /\ srvRet[conns[c].sentLog[2].nonce] = PyInt(1)

\* C6: when a handler's value fails to serialize, whatever the failure, a 500
\* is sent under the request's nonce and the loop of the connection goes on.
C6_Unserializable500 ==
    [][\A c \in Conns :
          (Finishes(c) /\ conns[c].st = "open"
             /\ srvRet'[conns[c].cur.nonce] \in HandlerReturns
             /\ ~Dumps(srvRet'[conns[c].cur.nonce]).ok)
          => (Answers(c, conns[c].cur.nonce, 500) /\ LoopGoesOn(c))]_vars

RECURSIVE IsSubseq(_, _)
IsSubseq(s, t) ==
    IF s = <<>> THEN TRUE
    ELSE IF t = <<>> THEN FALSE
    ELSE IF Head(s) = Head(t) THEN IsSubseq(Tail(s), Tail(t))
    ELSE IsSubseq(s, Tail(t))

NoncesOf(log) == [i \in 1..Len(log) |-> log[i].nonce]

\* C10: the handler for an envelope starts only when a response has been sent
\* for every envelope read before it on the connection, and responses are sent
\* in the order the envelopes were read.
C10_Sequential ==
    [][\A c \in Conns :
          /\ conns'[c].invLog # conns[c].invLog
             => Len(conns[c].sentLog) = Len(conns[c].recvLog)
          /\ IsSubseq(NoncesOf(conns'[c].sentLog), NoncesOf(conns'[c].recvLog))]_vars

\* ------------------------------------------------- client: what is checked
\* Call n went out with the server's secret, its handler returned a value
\* that serializes, and the receive loop resolved the call with the response.
Served(n) ==
    /\ calls[n].pc = "returned"
    /\ calls[n].how = "result"
    /\ cliKey = ServerKey
    /\ srvRet[n] \in HandlerReturns
    /\ Dumps(srvRet[n]).ok

\* C1 as stated: such a call returns exactly the value its handler returned.
C1_ExactValue == \A n \in Calls : Served(n) => calls[n].val = srvRet[n]

\* What a value looks like after the wire: JSON has no tuple and no integer
\* key.
AfterWire(x) ==
    IF x.t = "tuple" THEN PyList(x.v)
    ELSE IF x.t = "dict_int_keys" THEN PyStrDict(x.v)
    ELSE x

\* C1 amended: such a call returns its handler's value as JSON carries it: the
\* value itself when it is made of JSON's own types, a list for a tuple,
\* string keys for integer keys.
C1_ValueAfterWire == \A n \in Calls : Served(n) => calls[n].val = AfterWire(srvRet[n])

\* One call got its handler's integer back unchanged and another got a list for
\* its handler's tuple.
C1_Witness ==
    \E n, m \in Calls :
        /\ Served(n) /\ srvRet[n] = PyInt(2) /\ calls[n].val = PyInt(2)
        /\ Served(m) /\ srvRet[m] = PyTuple(1) /\ calls[m].val = PyList(1)

\* In this step the receive loop took a response frame for call n off the
\* websocket.
TakesResponse(n) ==
    /\ worker = "recv"
    /\ ws # 0
    /\ conns[ws].outbox # <<>>
    /\ Head(conns[ws].outbox).k = "resp"
    /\ Head(conns[ws].outbox).nonce = n
    /\ conns'[ws].outbox = Tail(conns[ws].outbox)
    /\ conns'[ws].readLog # conns[ws].readLog

\* C2: the calls outstanding on a client carry distinct nonces, a response
\* touches no call but the one whose nonce it carries, and a call that returns
\* a result returns what the peer answered to its own envelope, in whatever
\* order the answers come.
C2_OwnResult ==
    /\ [](\A n \in Calls :
            (calls[n].pc = "returned" /\ calls[n].how = "result")
            => calls[n].val = srvRet[n])
    /\ [](\A c \in Conns : \A i, j \in 1..Len(conns[c].wroteLog) :
            (i # j /\ conns[c].wroteLog[i].k = "json" /\ conns[c].wroteLog[j].k = "json")
            => conns[c].wroteLog[i].nonce # conns[c].wroteLog[j].nonce)
    /\ [][\A n \in Calls :
            TakesResponse(n) => \A m \in Calls \ {n} : calls'[m] = calls[m]]_vars

\* Envelopes 1 and 2 went out in that order, their answers came back in the
\* reverse order, and each call returned its own, different, answer.
C2_Witness ==
    /\ ws # 0
    /\ NoncesOf(conns[ws].wroteLog) = <<1, 2>>
    /\ NoncesOf(conns[ws].readLog) = <<2, 1>>
    /\ \A n \in {1, 2} :
          calls[n].pc = "returned" /\ calls[n].how = "result" /\ calls[n].val = srvRet[n]
    /\ srvRet[1] # srvRet[2]

\* C7: a call whose timeout fires returns default_value, and a response for
\* it that comes later, even before the call has returned, is dropped: the
\* receive loop and the send loop go on and no call changes.
C7_TimeoutHarmless ==
    [][\A n \in Calls :
          /\ (calls[n].pc = "timedout" /\ calls'[n].pc = "returned")
             => (calls'[n].val = DefaultValue /\ worker' = worker /\ sender' = sender)
          /\ (TakesResponse(n)
                /\ (calls[n].pc = "timedout"
                       \/ (calls[n].pc = "returned" /\ calls[n].how = "default")))
             => (worker' = "recv" /\ sender' = sender /\ calls' = calls)]_vars

\* In this step the receive loop took a close frame off the websocket.
TakesClose ==
    /\ worker = "recv"
    /\ ws # 0
    /\ conns[ws].outbox # <<>>
    /\ Head(conns[ws].outbox).k = "CLOSE"
    /\ conns'[ws].readLog # conns[ws].readLog

\* The client is on a connection it made by reconnecting.
Reconnected == Cardinality(ClientConns) >= 2 /\ IsOpen(ws) /\ ~closedAt.done

\* C8: when the receive loop sees the server's close, as a close frame or as
\* the end of the stream, it closes the session and sleeps the delay of 5; the
\* reconnect starts when the delay is over; and a request() made on the new
\* connection finds both loops running, to be sent and resolved.
C8_Reconnects ==
    [][/\ TakesClose
          => (worker' = "sleep" /\ timer' = ReconnectDelay /\ session' = "closed")
       /\ (worker = "recv" /\ worker' = "sleep")
          => (timer' = ReconnectDelay /\ session' = "closed")
       /\ (worker = "sleep" /\ worker' = "connect") => timer = 0
       /\ \A n \in Calls :
             (Reconnected /\ calls[n].pc = "new" /\ calls'[n].pc = "wait")
             => (sender = "run" /\ worker = "recv")]_vars

\* C9: once close() has run on a client that had a connection, both tasks are
\* cancelled, the session stays closed and the client makes no connection
\* again.
C9_CloseTerminal ==
    (closedAt.done /\ closedAt.connected)
    => /\ worker = "cancelled"
       /\ sender = "cancelled"
       /\ session = "closed"
       /\ ~IsOpen(ws)
       /\ Cardinality(ClientConns) = closedAt.n

\* close() ran while the receive loop was between teardown and reconnect, and
\* a request() made after it has returned.
C9_Witness ==
    /\ closedAt.done
    /\ closedAt.connected
    /\ closedAt.w \in {"sleep", "connect"}
    /\ \E n \in Calls : n > closedAt.calls /\ calls[n].pc = "returned"

\* --------------------------------------- client: connection failures
\* C11: request() never raises into its caller because of a connection
\* failure: whether the first connect fails, the connection is lost while the
\* call waits or a reconnect fails, the call ends by returning.
C11_NeverRaises == \A n \in Calls : calls[n].pc # "raised"

\* C12: a pending request is resolved at most once. A response whose slot is
\* already resolved or was cancelled by its timeout, a duplicate or a late
\* one, is dropped: no call changes and the receive loop goes on.
C12_ResolvedOnce ==
    [][\A n \in Calls :
          (TakesResponse(n) /\ calls[n].fut # "pending")
          => (worker' = "recv" /\ calls' = calls)]_vars

\* C13: the client never runs more than one send loop or one receive loop,
\* and while it holds an open connection that close() has not closed it runs
\* exactly one of each.
C13_OneOfEach ==
    (IsOpen(ws) /\ ~closedAt.done) => (worker = "recv" /\ sender = "run")

\* C14: a reconnect attempt of the receive loop ends in a connection, in
\* another wait of the fixed delay before the next attempt, or with close();
\* the loop never gives up.
C14_RetriesReconnect ==
    [][(worker = "connect" /\ worker' # "connect")
       => \/ worker' = "recv" /\ ws' # 0 /\ conns'[ws'].st = "open"
          \/ worker' = "sleep" /\ timer' = ReconnectDelay
          \/ worker' = "cancelled" /\ closedAt'.done]_vars

\* In this step the receive loop took a control frame of this kind off the
\* websocket.
TakesControl(kind) ==
    /\ worker = "recv"
    /\ ws # 0
    /\ conns[ws].outbox # <<>>
    /\ Head(conns[ws].outbox).k = kind
    /\ conns'[ws].readLog # conns[ws].readLog

\* C15: for a ping frame it receives the receive loop writes one pong frame
\* and nothing else; for a pong frame it writes nothing and changes no call.
C15_PingAnsweredByPong ==
    [][/\ TakesControl("PING")
          => conns'[ws].wroteLog =
                 Append(conns[ws].wroteLog, [NoFrame EXCEPT !.k = "PONG"])
       /\ TakesControl("PONG")
          => (conns'[ws].wroteLog = conns[ws].wroteLog /\ calls' = calls)]_vars

\* --------------------------------------- server: one response per envelope
\* In this step one response was sent on connection c, under this nonce.
AnswersOnce(c, nonce) ==
    /\ Len(conns'[c].sentLog) = Len(conns[c].sentLog) + 1
    /\ Last(conns'[c].sentLog).nonce = nonce
    /\ conns'[c].outbox # <<>>
    /\ Last(conns'[c].outbox).nonce = nonce

\* C16: every envelope the server reads gets exactly one response on its own
\* connection, carrying its nonce, when its processing ends: whether it is
\* turned down with 401 or 400, its handler returns or raises, or the value
\* fails to serialize. No envelope is left without a response and none gets
\* two.
C16_OneResponse ==
    [][\A c \in Conns :
          /\ (Reads(c) /\ conns'[c].hpc # "handler")
             => AnswersOnce(c, Last(conns'[c].recvLog).nonce)
          /\ (Finishes(c) /\ conns[c].st = "open")
             => AnswersOnce(c, conns[c].cur.nonce)
          /\ \A i, j \in 1..Len(conns'[c].sentLog) :
                i # j => conns'[c].sentLog[i].nonce # conns'[c].sentLog[j].nonce]_vars

\* ------------------------------------------------ server: the registry
\* In this step the server accepted a connection.
Accepts == \E c \in Conns : conns[c].st = "free" /\ conns'[c].st = "open"

\* The handler of the last registration under name e, 0 when there is none.
LastRegistered(e) ==
    LET I == {i \in 1..Len(routeLog) : routeLog[i].e = e}
    IN  IF I = {} THEN 0 ELSE routeLog[CHOOSE i \in I : \A j \in I : j <= i].h

\* C17: the live registry only grows and changes only when a connection is
\* accepted; each accept merges every pending registration into it and empties
\* the pending ones; a name registered more than once maps to the handler
\* registered last among those merged, and a registration is never refused.
C17_RegistryMerge ==
    [][/\ \A e \in Names : endpoints[e] # 0 => endpoints'[e] # 0
       /\ endpoints' # endpoints => Accepts
       /\ Accepts
          => /\ ROUTES' = NoRoutes
             /\ \A e \in Names :
                   endpoints'[e] = IF ROUTES[e] # 0 THEN LastRegistered(e)
                                   ELSE endpoints[e]
       /\ Len(routeLog') = Len(routeLog) + 1
          => ROUTES'[Last(routeLog').e] = Last(routeLog').h]_vars

\* Name "a" was registered with handler 1 and then with handler 2, both
\* registrations were merged, "a" maps to handler 2, and an envelope for "a"
\* is being served by handler 2.
C17_Witness ==
    /\ routeLog = <<[e |-> "a", h |-> 1], [e |-> "a", h |-> 2]>>
    /\ ROUTES = NoRoutes
    /\ endpoints["a"] = 2
    /\ \E c \in Conns : conns[c].hpc = "handler" /\ conns[c].cur.ep = "a" /\ conns[c].h = 2

\* ------------------------------------------------ client: the send loop
IsEnvelope(f) == f.k = "json"

\* The nonces of the envelopes the client wrote on connections 1..c, in the
\* order it wrote them; the client makes its connections in this order.
RECURSIVE WrittenUpTo(_)
WrittenUpTo(c) ==
    IF c = 0 THEN <<>>
    ELSE WrittenUpTo(c - 1) \o NoncesOf(SelectSeq(conns[c].wroteLog, IsEnvelope))

Written == WrittenUpTo(MaxConns)

IsPrefix(s, t) == Len(s) <= Len(t) /\ \A i \in 1..Len(s) : s[i] = t[i]

\* C18: the envelopes the send loop has written, over all the connections the
\* client has had, are the first ones request() enqueued, in the order it
\* enqueued them and each written once; a timeout or a reconnect brings no
\* envelope onto the wire again.
C18_WrittenInOrder == IsPrefix(Written, enqLog)

\* Call 2 was enqueued before call 1, which made the connection; the first
\* envelope written timed out, the connection was lost and made again, and the
\* second envelope was written on the new connection: each was written once,
\* in the order 2, 1.
C18_Witness ==
    /\ enqLog = <<2, 1>>
    /\ NoncesOf(conns[1].wroteLog) = <<2>>
    /\ NoncesOf(conns[2].wroteLog) = <<1>>
    /\ calls[2].pc = "returned" /\ calls[2].how = "default"

\* C19: the send loop outlives the loss of a connection: it ends only with
\* close(), so when request() has enqueued an envelope while the connection
\* was closed, the send loop is running when the reconnect has made the new
\* connection.
C19_SendLoopPerpetual ==
    [][/\ (sender = "run" /\ ~closedAt'.done) => sender' = "run"
       /\ (worker = "connect" /\ worker' = "recv") => sender' = "run"]_vars

\* ------------------------------------ client: enqueue and register
\* request() of call n has made its future and put it in _requests.
HasRegistered(n) == calls[n].pc \in {"wait", "timedout", "returned"}

\* C20: request() enqueues its envelope and registers its slot in one step,
\* so in every interleaving the slot of a nonce has been registered when its
\* envelope is in the queue, when the send loop writes it and when the receive
\* loop looks up a response to it.
C20_RegisteredBeforeWritten ==
    /\ [](\A i \in 1..Len(queue) : HasRegistered(queue[i]))
    /\ [](\A c \in Conns : \A i \in 1..Len(conns[c].wroteLog) :
            IsEnvelope(conns[c].wroteLog[i])
            => HasRegistered(conns[c].wroteLog[i].nonce))
    /\ [][\A n \in Calls : TakesResponse(n) => HasRegistered(n)]_vars

\* Two first calls ran together: call 2 enqueued while call 1 was still
\* connecting, the send loop started afterwards and wrote both envelopes, and
\* both calls were resolved by the responses to them.
C20_Witness ==
    /\ enqLog = <<2, 1>>
    /\ ws # 0
    /\ NoncesOf(conns[ws].wroteLog) = <<2, 1>>
    /\ \A n \in Calls : calls[n].pc = "returned" /\ calls[n].how = "result"

====
